---------------------------- MODULE Spec2Model ----------------------------
(***************************************************************************)
(* Rank normalisation and rank comparison of LOLRanksSummary.              *)
(*                                                                         *)
(*   src/src/utils/rank_calculator.py   get_total_lp, format_rank_diff,    *)
(*                                      calculate_diff_text, shorten_tier  *)
(*   src/src/utils/graph_generator.py   rank_to_numeric, numeric_to_rank   *)
(*                                                                         *)
(* A Python str that the code indexes or upper-cases (a tier, a rank) is a *)
(* sequence of one-character strings, so that upper() and tier[0] are      *)
(* computed and not assumed.  A str that is only built and compared (an    *)
(* f-string result) is a TLA+ string.  The non-ASCII literals of the       *)
(* source are transliterated:                                              *)
(*     U+00B1 (plus-minus)      "+-"                                       *)
(*     U+2192 (right arrow)     "->"                                       *)
(*     "Tier:<no change>"       "Tier:NoChange"   (rank_calculator.py:97)  *)
(*     <wins-kanji>,<losses-kanji>   "W", "L"     (rank_calculator.py:108) *)
(***************************************************************************)
EXTENDS Integers, Sequences, FiniteSets, Bags, TLC

VARIABLES
    pc,          \* which entry point has been called on the current inputs
    in_tier,     \* RankScale: the tier argument (str)
    in_rank,     \* RankScale: the rank / division argument (str)
    in_lp,       \* RankScale: the lp argument (int)
    total_lp,    \* outcome of get_total_lp(in_tier, in_rank, in_lp)
    numeric,     \* outcome of rank_to_numeric(in_tier, in_rank, in_lp)
    label,       \* outcome of numeric_to_rank(numeric)
    before,      \* RankDelta: old_data handed to calculate_diff_text
    after,       \* RankDelta: new_data handed to calculate_diff_text
    diff_text,   \* outcome of calculate_diff_text(before, after)
    frame,       \* the locals of that call when it returned
    tick,        \* generate_rank_graph: a y tick handed to numeric_to_rank
    data_map,    \* table report: riot id -> (fetch_date -> rank_history row)
    period_type, \* table report: 'daily', 'weekly' or 'monthly'
    table_data,  \* table report: outcome, the diff cells of every row
    schedules,   \* database: the rows of table schedules
    next_id,     \* database: the next value of the serial column schedules.id
    jobs,        \* Scheduler.scheduler: the bag of jobs of the job store
    task,        \* the coroutines of the scheduler cog, each at an await
    users,       \* database: the rows of table users
    rank_history,\* database: the rows of table rank_history
    call,        \* the last call of a database / collection method and its outcome
    bulk         \* the fetch_all_users_rank coroutine: its locals and position

vars == <<pc, in_tier, in_rank, in_lp, total_lp, numeric, label,
          before, after, diff_text, frame, tick,
          data_map, period_type, table_data,
          schedules, next_id, jobs, task,
          users, rank_history, call, bulk>>

scaleVars == <<in_tier, in_rank, in_lp, total_lp, numeric, label>>
deltaVars == <<before, after, diff_text, frame>>
\* the state of the entry points other than RankScale and RankDelta
schedVars == <<schedules, next_id, jobs, task>>
collectVars == <<users, rank_history, call, bulk>>
extVars == <<tick, data_map, period_type, table_data, schedVars, collectVars>>

---------------------------------------------------------------------------
(* Bounds *)

\* largest lp handed to the encoders one at a time (apex players hold
\* points in the thousands; 1500 is the spec's scenario C)
MaxPoints == 1500
\* lp of a compared apex snapshot: 0, 100, .. up to MaxLPSteps hundreds
MaxLPSteps == 5
\* largest wins / losses counter of a compared snapshot
MaxGames == 2
\* the lowest points value handed to an encoder is -MaxNegPoints (the code
\* validates no points value)
MaxNegPoints == 150
\* the y ticks handed to the decoder are the integers -MaxTick..MaxTick
MaxTick == 4500
\* the most wins / losses gained between the two snapshots of a win rate
MaxRateWins == 29
MaxRateLosses == 71
\* schedules.id runs up to MaxScheduleId: that many schedules are ever added
MaxScheduleId == 2
\* the fetch dates of a report are the days 1..MaxDate
MaxDate == 8

---------------------------------------------------------------------------
(* Python values *)

\* outcome of a call: not made yet, returned a value, or raised
NotCalled == [kind |-> "none"]
Return(v) == [kind |-> "return", value |-> v]
Raise(e)  == [kind |-> "raise", exc |-> e]

\* str.upper() on the ASCII letters
LOWER_CASE == <<"a", "b", "c", "d", "e", "f", "g", "h", "i", "j", "k", "l", "m",
                "n", "o", "p", "q", "r", "s", "t", "u", "v", "w", "x", "y", "z">>
UPPER_CASE == <<"A", "B", "C", "D", "E", "F", "G", "H", "I", "J", "K", "L", "M",
                "N", "O", "P", "Q", "R", "S", "T", "U", "V", "W", "X", "Y", "Z">>
UPPER_OF ==
    [c \in {LOWER_CASE[i] : i \in DOMAIN LOWER_CASE} |->
        UPPER_CASE[CHOOSE i \in DOMAIN LOWER_CASE : LOWER_CASE[i] = c]]

upper(s) == [i \in DOMAIN s |-> IF s[i] \in DOMAIN UPPER_OF THEN UPPER_OF[s[i]] ELSE s[i]]

\* the str as one TLA+ string (for dict keys and f-strings)
RECURSIVE Join(_)
Join(s) == IF s = <<>> THEN "" ELSE Head(s) \o Join(Tail(s))

\* str(n) inside an f-string
str(n) == ToString(n)


\* Python's `not d` for an optional dict: None and {} are falsy
None == [py |-> "None"]
EmptyDict == [py |-> "{}"]
falsy(d) == d \in {None, EmptyDict}

\* int(x) of a float x = a / b truncates toward zero
Trunc(a, b) == IF a >= 0 THEN a \div b ELSE -((-a) \div b)

\* The k in 0..300 for which the double (k / 100) * 100 is just below k, so
\* that int() of it is k - 1 (0.29 * 100 = 28.999999999999996).  A quotient
\* w / g that is not a whole number of hundredths is at least 1/(100 g) away
\* from one, far more than the rounding error, and truncates exactly.
FLOAT_SHORT == {29, 57, 58, 113, 114, 115, 116, 201, 203, 205, 207,
                226, 228, 230, 232, 251, 253, 255}

\* int((w / g) * 100) in double arithmetic, g > 0
int_rate(w, g) ==
    LET exact == Trunc(100 * w, g)
        mag   == IF exact >= 0 THEN exact ELSE -exact
    IN  IF (100 * w) % g = 0 /\ mag \in FLOAT_SHORT
        THEN (IF exact >= 0 THEN exact - 1 ELSE exact + 1)
        ELSE exact

---------------------------------------------------------------------------
(* rank_calculator.py *)

TIER_BASE_LP ==
    [IRON |-> 0, BRONZE |-> 400, SILVER |-> 800, GOLD |-> 1200,
     PLATINUM |-> 1600, EMERALD |-> 2000, DIAMOND |-> 2400,
     MASTER |-> 2800, GRANDMASTER |-> 2800, CHALLENGER |-> 2800]

\* (the weights counted from division I)
RANK_ORDER_from_I == [I |-> 0, II |-> 1, III |-> 2, IV |-> 3]

RANK_ORDER == [IV |-> 0, III |-> 1, II |-> 2, I |-> 3]

\* the list literal of rank_calculator.py:49, :89 and :91
APEX_LIST == {"MASTER", "GRANDMASTER", "CHALLENGER"}

\* (points below 0 counted as 0)
get_total_lp_clamped(tier, rank, lp) ==
    LET tier_upper == Join(upper(tier))
        points == IF lp < 0 THEN 0 ELSE lp
    IN  IF tier_upper \notin DOMAIN TIER_BASE_LP THEN 0
        ELSE LET base == TIER_BASE_LP[tier_upper]
             IN  IF tier_upper \in APEX_LIST THEN base + points
                 ELSE LET rank_upper == Join(upper(rank))
                          rank_val == IF rank_upper \in DOMAIN RANK_ORDER
                                      THEN RANK_ORDER[rank_upper] ELSE 0
                      IN  base + (rank_val * 100) + points

get_total_lp(tier, rank, lp) ==
    LET tier_upper == Join(upper(tier))
    IN  IF tier_upper \notin DOMAIN TIER_BASE_LP THEN 0
        ELSE LET base == TIER_BASE_LP[tier_upper]
             IN  IF tier_upper \in APEX_LIST THEN base + lp
                 ELSE LET rank_upper == Join(upper(rank))
                          rank_val == IF rank_upper \in DOMAIN RANK_ORDER
                                      THEN RANK_ORDER[rank_upper] ELSE 0
                      IN  base + (rank_val * 100) + lp

format_rank_diff(diff) ==
    IF diff > 0 THEN "+" \o str(diff) \o "LP"
    ELSE IF diff < 0 THEN str(diff) \o "LP"
    ELSE "+-0LP"

SHORT_MAPPING ==
    [IRON |-> "I", BRONZE |-> "B", SILVER |-> "S", GOLD |-> "G",
     PLATINUM |-> "P", EMERALD |-> "E", DIAMOND |-> "D", MASTER |-> "M",
     GRANDMASTER |-> "GM", CHALLENGER |-> "C"]

\* mapping.get(tier.upper(), tier[0]): the default tier[0] is evaluated
\* before the lookup, whatever the key
shorten_tier(tier) ==
    IF Len(tier) = 0 THEN Raise("IndexError")
    ELSE LET key == Join(upper(tier))
         IN  Return(IF key \in DOMAIN SHORT_MAPPING THEN SHORT_MAPPING[key]
                    ELSE tier[1])

\* (the apex replacement of :89-:92 left out)
tier_rank_str_keep_rank(data) ==
    shorten_tier(data.tier).value \o Join(data.rank)

\* old_str / new_str of calculate_diff_text: the abbreviation followed by
\* the stored rank, replaced by the bare abbreviation when the stored tier
\* is literally one of the three apex names (no upper() at :89 and :91)

tier_rank_str(data) ==
    IF Join(data.tier) \in APEX_LIST
    THEN shorten_tier(data.tier).value
    ELSE shorten_tier(data.tier).value \o Join(data.rank)

\* the locals of calculate_diff_text at its return statement (both
\* snapshots present, no shorten_tier call raised)
diff_locals(old_data, new_data) ==
    LET old_total == get_total_lp(old_data.tier, old_data.rank, old_data.lp)
        new_total == get_total_lp(new_data.tier, new_data.rank, new_data.lp)
        diff == new_total - old_total
        old_str == tier_rank_str(old_data)
        new_str == tier_rank_str(new_data)
        lp_diff_str == format_rank_diff(diff)
        label_content ==
            IF old_str = new_str THEN "Tier:NoChange LP:" \o lp_diff_str
            ELSE "Tier " \o old_str \o " -> " \o new_str \o " LP: " \o lp_diff_str
        w == new_data.wins - old_data.wins
        l == new_data.losses - old_data.losses
        g == w + l
    IN  [old_total |-> old_total, new_total |-> new_total, diff |-> diff,
         old_str |-> old_str, new_str |-> new_str, lp_diff_str |-> lp_diff_str,
         w |-> w, l |-> l, g |-> g,
         rate |-> IF g > 0 THEN <<int_rate(w, g)>> ELSE <<>>,
         content |->
            IF g > 0
            THEN label_content \o " (" \o str(w) \o "W" \o str(l) \o "L "
                               \o str(int_rate(w, g)) \o "%)"
            ELSE label_content]

\* (the placeholder only when both are missing: a missing argument is
\* subscripted, None['tier'] is a TypeError and {}['tier'] a KeyError)
calculate_diff_text_both_missing(old_data, new_data) ==
    IF falsy(old_data) /\ falsy(new_data) THEN Return("-")
    ELSE IF old_data = None THEN Raise("TypeError")
    ELSE IF old_data = EmptyDict THEN Raise("KeyError")
    ELSE IF new_data = None THEN Raise("TypeError")
    ELSE IF new_data = EmptyDict THEN Raise("KeyError")
    ELSE IF shorten_tier(old_data.tier).kind = "raise" THEN shorten_tier(old_data.tier)
    ELSE IF shorten_tier(new_data.tier).kind = "raise" THEN shorten_tier(new_data.tier)
    ELSE Return(diff_locals(old_data, new_data).content)

calculate_diff_text(old_data, new_data) ==
    IF falsy(old_data) \/ falsy(new_data) THEN Return("-")
    ELSE IF shorten_tier(old_data.tier).kind = "raise" THEN shorten_tier(old_data.tier)
    ELSE IF shorten_tier(new_data.tier).kind = "raise" THEN shorten_tier(new_data.tier)
    ELSE Return(diff_locals(old_data, new_data).content)

---------------------------------------------------------------------------
(* graph_generator.py *)

TIER_ORDER ==
    <<"IRON", "BRONZE", "SILVER", "GOLD", "PLATINUM",
      "EMERALD", "DIAMOND", "MASTER", "GRANDMASTER", "CHALLENGER">>

APEX_TIERS == {"MASTER", "GRANDMASTER", "CHALLENGER"}

\* (the weights counted from division I instead of from division IV)
DIV_MAP_from_I == [I |-> 0, II |-> 1, III |-> 2, IV |-> 3]

DIV_MAP == [I |-> 3, II |-> 2, III |-> 1, IV |-> 0]

\* list.index(x): 0-based position of the first occurrence
index(list, x) == (CHOOSE i \in DOMAIN list : list[i] = x /\ \A j \in 1..(i - 1) : list[j] # x) - 1

\* list[i] with Python's negative indices
subscript(list, i) ==
    IF 0 <= i /\ i < Len(list) THEN Return(list[i + 1])
    ELSE IF -Len(list) <= i /\ i < 0 THEN Return(list[Len(list) + i + 1])
    ELSE Raise("IndexError")

\* (a tier outside TIER_ORDER taken for the first of the list)
rank_to_numeric_unknown_first(tier, division, lp) ==
    LET tier_u == Join(upper(tier))
        tier_val == IF \A i \in DOMAIN TIER_ORDER : TIER_ORDER[i] # tier_u THEN 0
                    ELSE index(TIER_ORDER, tier_u) * 400
    IN  IF tier_u \in APEX_TIERS THEN tier_val + lp
        ELSE LET div_val == (IF Join(division) \in DOMAIN DIV_MAP
                             THEN DIV_MAP[Join(division)] ELSE 0) * 100
             IN  tier_val + div_val + lp

rank_to_numeric(tier, division, lp) ==
    LET tier_u == Join(upper(tier))
    IN  IF \A i \in DOMAIN TIER_ORDER : TIER_ORDER[i] # tier_u THEN 0
        ELSE LET tier_val == index(TIER_ORDER, tier_u) * 400
             IN  IF tier_u \in APEX_TIERS THEN tier_val + lp
                 ELSE LET div_val == (IF Join(division) \in DOMAIN DIV_MAP
                                      THEN DIV_MAP[Join(division)] ELSE 0) * 100
                      IN  tier_val + div_val + lp

numeric_to_rank(val) ==
    LET tier_idx0 == val \div 400
        tier_idx == IF tier_idx0 >= Len(TIER_ORDER) THEN Len(TIER_ORDER) - 1
                    ELSE tier_idx0
        tier_sub == subscript(TIER_ORDER, tier_idx)
        tier_offset == val % 400
        div_idx == tier_offset \div 100
        div_names == <<"IV", "III", "II", "I">>
    IN  IF tier_sub.kind = "raise" THEN tier_sub
        ELSE IF tier_sub.value \in APEX_TIERS
             THEN (IF tier_offset = 0 THEN Return(tier_sub.value)
                   ELSE Return("+" \o str(tier_offset) \o "LP"))
             ELSE Return(tier_sub.value \o " " \o
                         (IF div_idx < 4 THEN div_names[div_idx + 1] ELSE "I"))

---------------------------------------------------------------------------
(* Inputs *)

CANONICAL_TIERS ==
    { <<"I","R","O","N">>, <<"B","R","O","N","Z","E">>,
      <<"S","I","L","V","E","R">>, <<"G","O","L","D">>,
      <<"P","L","A","T","I","N","U","M">>, <<"E","M","E","R","A","L","D">>,
      <<"D","I","A","M","O","N","D">>, <<"M","A","S","T","E","R">>,
      <<"G","R","A","N","D","M","A","S","T","E","R">>,
      <<"C","H","A","L","L","E","N","G","E","R">> }

\* what get_rank_info stores when the provider names no known tier
\* (opgg_client.py:159, :206)
OTHER_TIERS == { <<"U","N","R","A","N","K","E","D">>, <<>> }

Tiers == CANONICAL_TIERS \cup OTHER_TIERS

DIVISIONS == { <<"I">>, <<"I","I">>, <<"I","I","I">>, <<"I","V">> }

\* division_to_roman gives "" when the provider names no division
Ranks == DIVISIONS \cup { <<>> }

\* (tier, rank) as the provider stores them
TierRanks ==
    (CANONICAL_TIERS \X Ranks) \cup (OTHER_TIERS \X { <<>> })

Snapshot(tr, lp, wins, losses) ==
    [tier |-> tr[1], rank |-> tr[2], lp |-> lp, wins |-> wins, losses |-> losses]

\* The points a stored snapshot carries: below 100 inside a division, and
\* without a limit in an apex tier (multiples of 100 here)
PointsOf(tier) ==
    IF Join(tier) \in APEX_TIERS THEN { k * 100 : k \in 0..MaxLPSteps }
    ELSE {0, 50, 99}

\* snapshots that differ in rank and points, no games recorded
RankSnapshots ==
    UNION { { Snapshot(tr, p, 0, 0) : p \in PointsOf(tr[1]) } : tr \in TierRanks }

\* snapshots that differ in tier and in the games counters
GameSnapshots ==
    { Snapshot(<<t, <<>>>>, 0, ws, ls) : t \in Tiers, ws \in 0..MaxGames, ls \in 0..MaxGames }

Absent == {None, EmptyDict}

\* the variables of an entry point that is not the one exercised
ScaleIdle ==
    /\ in_tier = <<>> /\ in_rank = <<>> /\ in_lp = 0
    /\ total_lp = NotCalled /\ numeric = NotCalled /\ label = NotCalled
DeltaIdle ==
    /\ before = None /\ after = None /\ diff_text = NotCalled /\ frame = <<>>
\* the coroutines that may be in flight at once
TASKS == {"t1", "t2"}

NoInput == [time_str |-> <<>>, channel_id |-> 0, period_type |-> "", output_type |-> ""]

\* a coroutine that is not running
IdleTask ==
    [op |-> "none", pc |-> "idle", server_id |-> 0, schedule_id |-> 0,
     input |-> NoInput, s |-> None, max_id |-> 0, status |-> "", rows |-> {}]

SchedIdle ==
    /\ schedules = {} /\ next_id = 1 /\ jobs = EmptyBag
    /\ task = [t \in TASKS |-> IdleTask]

ReportIdle == data_map = <<>> /\ period_type = "daily" /\ table_data = NotCalled

\* fetch_all_users_rank is not running
IdleBulk ==
    [pc |-> "idle", backfill |-> FALSE, server_id |-> 0, users |-> <<>>,
     renewal_results |-> <<>>, success_users |-> <<>>,
     formatted_failed_users |-> <<>>, i |-> 0,
     results |-> [total |-> 0, success |-> 0, failed |-> 0, failed_list |-> {}],
     history_at_start |-> {}, fetched |-> {}, written |-> {}]

CollectIdle ==
    /\ users = {} /\ rank_history = {}
    /\ call = NotCalled /\ bulk = IdleBulk

ExtIdle ==
    /\ tick = 0
    /\ ReportIdle
    /\ SchedIdle
    /\ CollectIdle

---------------------------------------------------------------------------
(* RankScale: one (tier, rank, lp) through the two encoders and the decoder *)

InitScale ==
    /\ pc = "scale"
    /\ in_tier \in Tiers /\ in_rank \in Ranks
    /\ in_lp \in (-MaxNegPoints)..MaxPoints
    /\ total_lp = NotCalled /\ numeric = NotCalled /\ label = NotCalled
    /\ DeltaIdle /\ ExtIdle

CallGetTotalLp ==
    /\ pc = "scale" /\ total_lp = NotCalled
    /\ total_lp' = Return(get_total_lp(in_tier, in_rank, in_lp))
    /\ UNCHANGED <<pc, in_tier, in_rank, in_lp, numeric, label, deltaVars, extVars>>

CallRankToNumeric ==
    /\ pc = "scale" /\ numeric = NotCalled
    /\ numeric' = Return(rank_to_numeric(in_tier, in_rank, in_lp))
    /\ UNCHANGED <<pc, in_tier, in_rank, in_lp, total_lp, label, deltaVars, extVars>>

\* the axis label of a plotted value (graph_generator.py:259)
CallNumericToRank ==
    /\ pc = "scale" /\ numeric.kind = "return" /\ label = NotCalled
    /\ label' = numeric_to_rank(numeric.value)
    /\ UNCHANGED <<pc, in_tier, in_rank, in_lp, total_lp, numeric, deltaVars, extVars>>

NextScale == CallGetTotalLp \/ CallRankToNumeric \/ CallNumericToRank

SpecScale == InitScale /\ [][NextScale]_vars

---------------------------------------------------------------------------
(* generate_rank_graph: the label of a y tick *)

InitDecode ==
    /\ pc = "decode"
    /\ tick \in (-MaxTick)..MaxTick
    /\ ScaleIdle /\ DeltaIdle /\ ReportIdle /\ SchedIdle /\ CollectIdle

\* y_labels = [numeric_to_rank(t) for t in y_ticks]
CallNumericToRankOnTick ==
    /\ pc = "decode"
    /\ pc' = "decoded"
    /\ label' = numeric_to_rank(tick)
    /\ UNCHANGED <<in_tier, in_rank, in_lp, total_lp, numeric, deltaVars, extVars>>

NextDecode == CallNumericToRankOnTick

SpecDecode == InitDecode /\ [][NextDecode]_vars

---------------------------------------------------------------------------
(* RankDelta: calculate_diff_text on a pair of snapshots *)

InitDelta ==
    /\ pc = "delta"
    /\ \/ before \in RankSnapshots \cup Absent /\ after \in RankSnapshots \cup Absent
       \/ before \in GameSnapshots /\ after \in GameSnapshots
    /\ diff_text = NotCalled /\ frame = <<>>
    /\ ScaleIdle /\ ExtIdle

CallCalculateDiffText ==
    /\ pc = "delta"
    /\ pc' = "returned"
    /\ diff_text' = calculate_diff_text(before, after)
    /\ frame' = IF ~falsy(before) /\ ~falsy(after) /\ diff_text'.kind = "return"
                THEN diff_locals(before, after) ELSE <<>>
    /\ UNCHANGED <<before, after, scaleVars, extVars>>

NextDelta == CallCalculateDiffText

SpecDelta == InitDelta /\ [][NextDelta]_vars

\* The same call on tier names in other letter-casings.  (What the provider
\* adapter stores is upper-cased, opgg_client.py:206; the function itself
\* takes any str.)
CASED_TIERS ==
    { <<"G","O","L","D">>, <<"G","o","l","d">>, <<"g","o","l","d">>,
      <<"M","A","S","T","E","R">>, <<"M","a","s","t","e","r">>,
      <<"m","a","s","t","e","r">>,
      <<"G","R","A","N","D","M","A","S","T","E","R">>,
      <<"g","r","a","n","d","m","a","s","t","e","r">>,
      <<"C","H","A","L","L","E","N","G","E","R">>,
      <<"c","h","a","l","l","e","n","g","e","r">> }

CaseSnapshots ==
    { Snapshot(<<t, r>>, p, 0, 0) :
        t \in CASED_TIERS, r \in { <<>>, <<"I">>, <<"I","V">> }, p \in {0, 50} }

InitCase ==
    /\ pc = "delta"
    /\ before \in CaseSnapshots /\ after \in CaseSnapshots
    /\ diff_text = NotCalled /\ frame = <<>>
    /\ ScaleIdle /\ ExtIdle

SpecCase == InitCase /\ [][NextDelta]_vars

\* one player's row before and after a stretch of games: the same rank,
\* the season's counters grown by the games played
RateSnapshots ==
    { Snapshot(<<<<"G","O","L","D">>, <<"I","V">>>>, 0, ws, ls) :
        ws \in 0..MaxRateWins, ls \in 0..MaxRateLosses }

InitRate ==
    /\ pc = "delta"
    /\ before = Snapshot(<<<<"G","O","L","D">>, <<"I","V">>>>, 0, 0, 0)
    /\ after \in RateSnapshots
    /\ diff_text = NotCalled /\ frame = <<>>
    /\ ScaleIdle /\ ExtIdle

SpecRate == InitRate /\ [][NextDelta]_vars

---------------------------------------------------------------------------
(* scheduler.py: the table report over all users *)

Max(S) == CHOOSE x \in S : \A y \in S : y <= x
Min(S) == CHOOSE x \in S : \A y \in S : x <= y

\* (the earliest candidate instead of the latest)
get_entry_near_earliest(h_map, target_d) ==
    LET candidates == { d \in DOMAIN h_map : d <= target_d }
    IN  IF candidates = {} THEN None ELSE h_map[Min(candidates)]

get_entry_near(h_map, target_d) ==
    LET candidates == { d \in DOMAIN h_map : d <= target_d }
    IN  IF candidates = {} THEN None ELSE h_map[Max(candidates)]

\* diff_days of the "recent diff" column
diff_days_of(p_type) ==
    IF p_type = "weekly" THEN 7 ELSE IF p_type = "monthly" THEN 30 ELSE 1

\* h_map.get(d)
dict_get(h_map, d) == IF d \in DOMAIN h_map THEN h_map[d] ELSE None

\* _generate_report_image_payload_impl: None without any date, else per
\* riot id the two diff cells of its row (the rank cells of the shown dates
\* are display only and left out)
generate_report_image_payload(dmap, p_type) ==
    LET all_dates == UNION { DOMAIN dmap[rid] : rid \in DOMAIN dmap }
    IN  IF all_dates = {} THEN Return(None)
        ELSE LET anchor_date == Max(all_dates)
                 first_date == Min(all_dates)
                 diff1_date == anchor_date - diff_days_of(p_type)
                 row(rid) ==
                    LET h_map == dmap[rid]
                        anchor_entry == dict_get(h_map, anchor_date)
                        diff1_entry == get_entry_near(h_map, diff1_date)
                        start_entry == get_entry_near(h_map, first_date)
                    IN  [diff1_text |->
                            IF ~falsy(diff1_entry) /\ ~falsy(anchor_entry)
                            THEN calculate_diff_text(diff1_entry, anchor_entry)
                            ELSE Return("-"),
                         period_diff_text |->
                            IF ~falsy(start_entry) /\ ~falsy(anchor_entry)
                            THEN calculate_diff_text(start_entry, anchor_entry)
                            ELSE Return("-")]
             IN  Return([rid \in DOMAIN dmap |-> row(rid)])

RIOT_IDS == {"p1#JP1", "p2#JP1"}

\* the row a daily collection stored on day d: points and wins grow with
\* the day, so that a diff text tells which two rows it compares
HistoryRow(d) ==
    [tier |-> <<"G","O","L","D">>, rank |-> <<"I","V">>, lp |-> d,
     wins |-> d, losses |-> 0, fetch_date |-> d]

\* {x['fetch_date']: x for x in h} over the rows of any set of days
HistoryMaps == { [d \in D |-> HistoryRow(d)] : D \in SUBSET (1..MaxDate) }

InitReport ==
    /\ pc = "report"
    /\ data_map \in [RIOT_IDS -> HistoryMaps]
    /\ period_type \in {"daily", "weekly", "monthly"}
    /\ table_data = NotCalled
    /\ tick = 0
    /\ ScaleIdle /\ DeltaIdle /\ SchedIdle /\ CollectIdle

CallGenerateReportImagePayload ==
    /\ pc = "report"
    /\ pc' = "reported"
    /\ table_data' = generate_report_image_payload(data_map, period_type)
    /\ UNCHANGED <<scaleVars, deltaVars, tick, data_map, period_type, schedVars,
                   collectVars>>

NextReport == CallGenerateReportImagePayload

SpecReport == InitReport /\ [][NextReport]_vars

---------------------------------------------------------------------------
(* database.py: table schedules *)

DIGITS == ("0" :> 0) @@ ("1" :> 1) @@ ("2" :> 2) @@ ("3" :> 3) @@ ("4" :> 4)
          @@ ("5" :> 5) @@ ("6" :> 6) @@ ("7" :> 7) @@ ("8" :> 8) @@ ("9" :> 9)

\* str.split(':')
RECURSIVE split_colon(_)
split_colon(str_) ==
    IF \A i \in DOMAIN str_ : str_[i] # ":" THEN <<str_>>
    ELSE LET i == CHOOSE k \in DOMAIN str_ :
                      str_[k] = ":" /\ \A j \in 1..(k - 1) : str_[j] # ":"
         IN  <<SubSeq(str_, 1, i - 1)>> \o split_colon(SubSeq(str_, i + 1, Len(str_)))

\* a %H, %M or %S field: one or two digits, at most max_v; -1 when it does
\* not match
time_field(part, max_v) ==
    IF Len(part) \notin {1, 2} \/ \E i \in DOMAIN part : part[i] \notin DOMAIN DIGITS
    THEN -1
    ELSE LET v == IF Len(part) = 1 THEN DIGITS[part[1]]
                  ELSE 10 * DIGITS[part[1]] + DIGITS[part[2]]
         IN  IF v <= max_v THEN v ELSE -1

\* datetime.strptime(schedule_time, "%H:%M" or "%H:%M:%S").time(), as
\* <<hour, minute, second>>, or the ValueError of register_schedule /
\* update_schedule
strptime_time(schedule_time) ==
    LET parts == split_colon(schedule_time)
        h == time_field(parts[1], 23)
        m == IF Len(parts) >= 2 THEN time_field(parts[2], 59) ELSE -1
        sec == IF Len(parts) = 2 THEN 0
               ELSE IF Len(parts) = 3 THEN time_field(parts[3], 59) ELSE -1
    IN  IF h < 0 \/ m < 0 \/ sec < 0 THEN Raise("ValueError")
        ELSE Return(<<h, m, sec>>)

\* SELECT MAX(local_id) FROM schedules WHERE server_id = $1, `or 0`
select_max_local_id(rows, server_id) ==
    LET ids == { r.local_id : r \in { q \in rows : q.server_id = server_id } }
    IN  IF ids = {} THEN 0 ELSE Max(ids)

\* INSERT INTO schedules (...) VALUES (..., 'ENABLED', local_id, ...)
insert_schedule(rows, id, server_id, schedule_time, channel_id, p_type, output_type, local_id) ==
    rows \cup { [id |-> id, server_id |-> server_id, local_id |-> local_id,
                 schedule_time |-> schedule_time, channel_id |-> channel_id,
                 period_type |-> p_type, output_type |-> output_type,
                 status |-> "ENABLED"] }

\* SELECT * FROM schedules WHERE server_id = $1 AND local_id = $2: the rows
\* fetchrow may return
get_schedule_by_id(rows, server_id, local_id) ==
    { r \in rows : r.server_id = server_id /\ r.local_id = local_id }

\* a reindex that leaves every local id as it is
_do_reindex_schedules_skipped(rows, server_id) == rows

_do_reindex_schedules(rows, server_id) ==
    { IF r.server_id = server_id
      THEN [r EXCEPT !.local_id =
                Cardinality({ q \in rows : q.server_id = server_id /\ q.id <= r.id })]
      ELSE r : r \in rows }

delete_schedule(rows, server_id, local_id) ==
    _do_reindex_schedules(
        { r \in rows : ~(r.server_id = server_id /\ r.local_id = local_id) },
        server_id)

update_schedule(rows, server_id, local_id, schedule_time, channel_id, p_type, output_type) ==
    { IF r.server_id = server_id /\ r.local_id = local_id
      THEN [r EXCEPT !.schedule_time = schedule_time, !.channel_id = channel_id,
                     !.period_type = p_type, !.output_type = output_type]
      ELSE r : r \in rows }

set_schedule_status(rows, server_id, local_id, status) ==
    { IF r.server_id = server_id /\ r.local_id = local_id
      THEN [r EXCEPT !.status = status]
      ELSE r : r \in rows }

---------------------------------------------------------------------------
(* scheduler.py: the schedule commands and reload_schedules *)

\* (the jobs left in the store)
keep_all_jobs(js) == js

\* AsyncIOScheduler.remove_all_jobs
remove_all_jobs(js) == EmptyBag

\* a job of the store: its name, its function and arguments, and the fields
\* of its cron trigger; day_of_week "" and day 0 stand for a field that is
\* not given
daily_rank_fetch ==
    [name |-> "daily_rank_fetch", func |-> "fetch_all_users_rank", args |-> <<>>,
     hour |-> 23, minute |-> 55, second |-> 0, day_of_week |-> "", day |-> 0]

\* the job reload_schedules adds for row s_row
report_job(s_row) ==
    [name |-> "run_daily_report", func |-> "run_daily_report",
     args |-> <<s_row.server_id, s_row.channel_id, s_row.period_type, s_row.output_type>>,
     hour |-> s_row.schedule_time[1], minute |-> s_row.schedule_time[2],
     second |-> s_row.schedule_time[3],
     day_of_week |-> IF s_row.period_type = "weekly" THEN "fri" ELSE "",
     day |-> IF s_row.period_type = "monthly" THEN 1 ELSE 0]

\* the jobs the loop of reload_schedules adds for the fetched rows
report_jobs(rows) ==
    LET enabled == { s_row \in rows : ~(s_row.status # "ENABLED") }
    IN  [j \in { report_job(s_row) : s_row \in enabled } |->
            Cardinality({ s_row \in enabled : report_job(s_row) = j })]

SERVERS == {1, 2}

\* the channel a command is typed in ('here')
ChannelOf(server_id) == 100 * server_id

\* the time strings of the replies: "21:00", "8:30:15", and "25:00", which
\* has a colon and is no time
TIME_STRS ==
    { <<"2","1",":","0","0">>, <<"8",":","3","0",":","1","5">>,
      <<"2","5",":","0","0">> }

\* what parse_schedule_input returns for the replies it accepts
Inputs(server_id) ==
    { [time_str |-> ts, channel_id |-> ChannelOf(server_id),
       period_type |-> pt, output_type |-> "table"] :
        ts \in TIME_STRS, pt \in {"daily", "weekly", "monthly"} }

AllIdle == \A t \in TASKS : task[t].pc = "idle"

\* after construction: an empty database, an empty job store, cog_load
\* about to call reload_schedules
InitSchedule ==
    /\ pc = "schedule"
    /\ schedules = {} /\ next_id = 1 /\ jobs = EmptyBag
    /\ task = [t \in TASKS |->
                 IF t = "t1" THEN [IdleTask EXCEPT !.op = "cog_load", !.pc = "reload_begin"]
                 ELSE IdleTask]
    /\ tick = 0 /\ ReportIdle
    /\ ScaleIdle /\ DeltaIdle /\ CollectIdle

otherVars == <<pc, scaleVars, deltaVars, tick, data_map, period_type, table_data,
               collectVars>>

\* schedule_add up to the call of register_schedule
ScheduleAdd(t) ==
    /\ task[t].pc = "idle"
    /\ next_id <= MaxScheduleId
    /\ \E server_id \in SERVERS : \E input \in Inputs(server_id) :
          task' = [task EXCEPT ![t] =
                     [IdleTask EXCEPT !.op = "schedule_add", !.pc = "register",
                                      !.server_id = server_id, !.input = input]]
    /\ UNCHANGED <<schedules, next_id, jobs, otherVars>>

\* schedule_edit: no reply in time, or parse_schedule_input reports an error
EditRejected(t) ==
    /\ task[t].pc = "edit_wait"
    /\ task' = [task EXCEPT ![t] = IdleTask]
    /\ UNCHANGED <<schedules, next_id, jobs, otherVars>>

\* register_schedule: the time is parsed, MAX(local_id) is read
RegisterSelectMax(t) ==
    /\ task[t].pc = "register"
    /\ IF strptime_time(task[t].input.time_str).kind = "raise"
       THEN task' = [task EXCEPT ![t] = IdleTask]
       ELSE task' = [task EXCEPT ![t].pc = "insert",
                                 ![t].max_id = select_max_local_id(schedules, task[t].server_id)]
    /\ UNCHANGED <<schedules, next_id, jobs, otherVars>>

\* register_schedule: the INSERT
RegisterInsert(t) ==
    /\ task[t].pc = "insert"
    /\ schedules' = insert_schedule(schedules, next_id, task[t].server_id,
                        strptime_time(task[t].input.time_str).value,
                        task[t].input.channel_id, task[t].input.period_type,
                        task[t].input.output_type, task[t].max_id + 1)
    /\ next_id' = next_id + 1
    /\ task' = [task EXCEPT ![t].pc = "reload_begin"]
    /\ UNCHANGED <<jobs, otherVars>>

\* the first statement of schedule_del, schedule_enable, schedule_disable
\* and schedule_edit: the row is looked up by its local id, and the
\* command ends there when there is none
Lookup(t, op, next_pc, status) ==
    /\ task[t].pc = "idle"
    /\ \E server_id \in SERVERS, schedule_id \in 1..MaxScheduleId :
          LET found == get_schedule_by_id(schedules, server_id, schedule_id)
          IN  IF found = {}
              THEN UNCHANGED task
              ELSE \E s_row \in found :
                      task' = [task EXCEPT ![t] =
                                 [IdleTask EXCEPT !.op = op, !.pc = next_pc,
                                                  !.server_id = server_id,
                                                  !.schedule_id = schedule_id,
                                                  !.s = s_row, !.status = status]]
    /\ UNCHANGED <<schedules, next_id, jobs, otherVars>>

ScheduleDel(t) == Lookup(t, "schedule_del", "delete", "")
ScheduleEnable(t) == Lookup(t, "schedule_enable", "set_status", "ENABLED")
ScheduleDisable(t) == Lookup(t, "schedule_disable", "set_status", "DISABLED")
ScheduleEdit(t) == Lookup(t, "schedule_edit", "edit_wait", "")

DeleteSchedule(t) ==
    /\ task[t].pc = "delete"
    /\ schedules' = delete_schedule(schedules, task[t].server_id, task[t].schedule_id)
    /\ task' = [task EXCEPT ![t].pc = "reload_begin"]
    /\ UNCHANGED <<next_id, jobs, otherVars>>

SetScheduleStatus(t) ==
    /\ task[t].pc = "set_status"
    /\ schedules' = set_schedule_status(schedules, task[t].server_id,
                                        task[t].schedule_id, task[t].status)
    /\ task' = [task EXCEPT ![t].pc = "reload_begin"]
    /\ UNCHANGED <<next_id, jobs, otherVars>>

\* schedule_edit: the reply arrives and parses
EditReply(t) ==
    /\ task[t].pc = "edit_wait"
    /\ \E input \in Inputs(task[t].server_id) :
          task' = [task EXCEPT ![t].pc = "update", ![t].input = input]
    /\ UNCHANGED <<schedules, next_id, jobs, otherVars>>

UpdateSchedule(t) ==
    /\ task[t].pc = "update"
    /\ IF strptime_time(task[t].input.time_str).kind = "raise"
       THEN /\ task' = [task EXCEPT ![t] = IdleTask]
            /\ UNCHANGED schedules
       ELSE /\ schedules' = update_schedule(schedules, task[t].server_id,
                                task[t].schedule_id,
                                strptime_time(task[t].input.time_str).value,
                                task[t].input.channel_id, task[t].input.period_type,
                                task[t].input.output_type)
            /\ task' = [task EXCEPT ![t].pc = "reload_begin"]
    /\ UNCHANGED <<next_id, jobs, otherVars>>

\* reload_schedules up to `await db.get_all_schedules()`
ReloadBegin(t) ==
    /\ task[t].pc = "reload_begin"
    /\ jobs' = remove_all_jobs(jobs) (+) SetToBag({daily_rank_fetch})
    /\ task' = [task EXCEPT ![t].pc = "reload_fetch"]
    /\ UNCHANGED <<schedules, next_id, otherVars>>

\* get_all_schedules: SELECT * FROM schedules
ReloadFetch(t) ==
    /\ task[t].pc = "reload_fetch"
    /\ task' = [task EXCEPT ![t].pc = "reload_add", ![t].rows = schedules]
    /\ UNCHANGED <<schedules, next_id, jobs, otherVars>>

\* reload_schedules from the loop over the fetched rows on; the command
\* ends with a message
ReloadAdd(t) ==
    /\ task[t].pc = "reload_add"
    /\ jobs' = jobs (+) report_jobs(task[t].rows)
    /\ task' = [task EXCEPT ![t] = IdleTask]
    /\ UNCHANGED <<schedules, next_id, otherVars>>

\* a step of a command that is under way
Step(t) ==
    \/ RegisterSelectMax(t) \/ RegisterInsert(t)
    \/ DeleteSchedule(t) \/ SetScheduleStatus(t)
    \/ EditReply(t) \/ EditRejected(t) \/ UpdateSchedule(t)
    \/ ReloadBegin(t) \/ ReloadFetch(t) \/ ReloadAdd(t)

\* a command that is issued
Command(t) ==
    \/ ScheduleAdd(t) \/ ScheduleDel(t) \/ ScheduleEnable(t)
    \/ ScheduleDisable(t) \/ ScheduleEdit(t)

\* the commands one at a time, each in the coroutine cog_load ran in: a
\* command is issued when no coroutine of the cog is under way
NextSchedule ==
    \/ AllIdle /\ Command("t1")
    \/ Step("t1")

SpecSchedule == InitSchedule /\ [][NextSchedule]_vars

\* the commands and replies of one server, all naming the time "21:00"
OneServer ==
    \A u \in TASKS :
        /\ task'[u].server_id \in {0, 1}
        /\ task'[u].input.time_str \in {<<>>, <<"2","1",":","0","0">>}

\* the reload_schedules steps of a coroutine
Reload(t) == ReloadBegin(t) \/ ReloadFetch(t) \/ ReloadAdd(t)

\* schedule_add as discord.py runs it: every command is a coroutine of its
\* own, started whenever it is issued, also while cog_load or another
\* command is at an await
NextAddRace ==
    \E t \in TASKS :
        \/ ScheduleAdd(t) /\ OneServer
        \/ RegisterSelectMax(t) \/ RegisterInsert(t)
        \/ Reload(t)

SpecAddRace == InitSchedule /\ [][NextAddRace]_vars

\* schedule_add, schedule_del and schedule_edit as coroutines of their own;
\* the schedules are added as daily ones and edited into weekly ones
NextEditRace ==
    \E t \in TASKS :
        \/ ScheduleAdd(t) /\ OneServer /\ task'[t].input.period_type = "daily"
        \/ RegisterSelectMax(t) \/ RegisterInsert(t)
        \/ ScheduleDel(t) /\ OneServer
        \/ DeleteSchedule(t)
        \/ ScheduleEdit(t) /\ OneServer
        \/ EditReply(t) /\ OneServer /\ task'[t].input.period_type = "weekly"
        \/ EditRejected(t) \/ UpdateSchedule(t)
        \/ Reload(t)

SpecEditRace == InitSchedule /\ [][NextEditRace]_vars

---------------------------------------------------------------------------
(* The vocabulary of the claims *)

GOLD == <<"G","O","L","D">>
DIAMOND == <<"D","I","A","M","O","N","D">>
MASTER == <<"M","A","S","T","E","R">>
GRANDMASTER == <<"G","R","A","N","D","M","A","S","T","E","R">>
CHALLENGER == <<"C","H","A","L","L","E","N","G","E","R">>

\* position in the canonical ten-tier order, IRON = 0 .. CHALLENGER = 9
TierOrdinal(t) == index(TIER_ORDER, Join(t))
IsApex(t) == t \in {MASTER, GRANDMASTER, CHALLENGER}
\* IV = 0 < III = 1 < II = 2 < I = 3
DivisionWeight(r) ==
    CASE r = <<"I","V">> -> 0 [] r = <<"I","I","I">> -> 1
      [] r = <<"I","I">> -> 2 [] r = <<"I">> -> 3

\* a snapshot the data model admits: a canonical tier, and one of the four
\* divisions unless the tier is an apex tier
Recognised(d) ==
    /\ ~falsy(d)
    /\ d.tier \in CANONICAL_TIERS
    /\ IsApex(d.tier) \/ d.rank \in DIVISIONS

\* b is strictly higher-ranked than a in the order (tier ordinal, division
\* weight for non-apex tiers, points)
StrictlyHigher(b, a) ==
    LET wb == IF IsApex(b.tier) THEN 0 ELSE DivisionWeight(b.rank)
        wa == IF IsApex(a.tier) THEN 0 ELSE DivisionWeight(a.rank)
    IN  \/ TierOrdinal(b.tier) > TierOrdinal(a.tier)
        \/ TierOrdinal(b.tier) = TierOrdinal(a.tier) /\ wb > wa
        \/ TierOrdinal(b.tier) = TierOrdinal(a.tier) /\ wb = wa /\ b.lp > a.lp

BothPresent == ~falsy(before) /\ ~falsy(after)
Returned == pc = "returned"

\* the transition label and the signed delta of a returned diff text, with
\* no win/loss fragment after them
LabelAndDelta ==
    IF frame.old_str = frame.new_str
    THEN "Tier:NoChange LP:" \o frame.lp_diff_str
    ELSE "Tier " \o frame.old_str \o " -> " \o frame.new_str \o " LP: " \o frame.lp_diff_str

\* the returned text carries a win/loss fragment
HasFragment == diff_text.kind = "return" /\ diff_text.value # LabelAndDelta

\* every label numeric_to_rank builds is a tier name, a tier name followed
\* by a division, or "+<n>LP"; it names tier t in the first two forms
NamesTier(lbl, t) ==
    lbl \in {Join(t) \o suffix : suffix \in {"", " IV", " III", " II", " I"}}

---------------------------------------------------------------------------
(* Claims *)

\* C1: for two snapshots with canonical tiers, tier(before) lower than
\* tier(after), any divisions and any points >= 0, the encoded total of the
\* higher tier is strictly greater, under get_total_lp and under
\* rank_to_numeric.  (The code does not satisfy this.)
C1_CrossTierMonotone ==
    (Returned /\ BothPresent
        /\ before.tier \in CANONICAL_TIERS /\ after.tier \in CANONICAL_TIERS
        /\ TierOrdinal(before.tier) < TierOrdinal(after.tier))
    => /\ frame.new_total > frame.old_total
       /\ rank_to_numeric(after.tier, after.rank, after.lp)
            > rank_to_numeric(before.tier, before.rank, before.lp)

\* C2: for an apex tier with band index b and points p, get_total_lp and
\* rank_to_numeric both return b * 400 + p.  (get_total_lp does not.)
C2_ApexEncoding ==
    (IsApex(in_tier) /\ total_lp.kind = "return" /\ numeric.kind = "return")
    => /\ total_lp.value = TierOrdinal(in_tier) * 400 + in_lp
       /\ numeric.value = TierOrdinal(in_tier) * 400 + in_lp

\* C3: for an apex tier T and any points p >= 0, the label decoded from
\* rank_to_numeric(T, none, p) names T.  (The code does not satisfy this.)
C3_ApexRoundTrip ==
    (IsApex(in_tier) /\ in_lp >= 0 /\ label # NotCalled)
    => label.kind = "return" /\ NamesTier(label.value, in_tier)

\* C4: for a non-apex tier T, a division D of IV, III, II, I and points
\* 0 <= p < 100, numeric_to_rank(rank_to_numeric(T, D, p)) is the label "T D".
C4_NonApexRoundTrip ==
    (in_tier \in CANONICAL_TIERS /\ ~IsApex(in_tier) /\ in_rank \in DIVISIONS
        /\ 0 <= in_lp /\ in_lp < 100 /\ label # NotCalled)
    => label = Return(Join(in_tier) \o " " \o Join(in_rank))

C4_Witness ==
    /\ in_tier = GOLD /\ in_rank = <<"I","I">> /\ in_lp = 50
    /\ numeric = Return(1450) /\ label = Return("GOLD II")

\* C5: when after is strictly higher-ranked than before (tier ordinal,
\* division weight for non-apex tiers, points), the delta of
\* calculate_diff_text is N = get_total_lp(after) - get_total_lp(before) > 0
\* and is rendered "+NLP".  (The code does not satisfy this.)
C5_DeltaSign ==
    (Returned /\ Recognised(before) /\ Recognised(after)
        /\ StrictlyHigher(after, before))
    => /\ diff_text.kind = "return"
       /\ frame.diff = get_total_lp(after.tier, after.rank, after.lp)
                        - get_total_lp(before.tier, before.rank, before.lp)
       /\ frame.diff > 0
       /\ frame.lp_diff_str = "+" \o str(frame.diff) \o "LP"

\* C6: when the delta is rendered as the neutral token, the two snapshots
\* have the same tier and (non-apex) the same division, and the label is the
\* no-change phrase.  (The code does not satisfy this.)
C6_ZeroDeltaMeansNoChange ==
    (Returned /\ Recognised(before) /\ Recognised(after)
        /\ diff_text.kind = "return" /\ frame.lp_diff_str = "+-0LP")
    => /\ before.tier = after.tier
       /\ IsApex(before.tier) \/ before.rank = after.rank
       /\ frame.old_str = frame.new_str

\* C7: calculate_diff_text returns a string, and never raises, for every
\* pair of present snapshots with str tier and rank and int counters.
\* (The code does not satisfy this.)
C7_NeverRaises ==
    (Returned /\ BothPresent) => diff_text.kind = "return"

\* C8: whenever the win/loss fragment is appended, the displayed wins and
\* losses are >= 0 and the rate is in 0..100; when a counter decreased the
\* fragment is omitted.  (The code does not satisfy this.)
C8_WinRateSane ==
    (Returned /\ BothPresent /\ HasFragment)
    => /\ frame.w >= 0 /\ frame.l >= 0
       /\ frame.rate[1] \in 0..100
       /\ after.wins >= before.wins /\ after.losses >= before.losses

\* C9: for two present snapshots with games <= 0, calculate_diff_text
\* returns without raising and the result is exactly the transition label
\* plus the signed delta.  (The code does not satisfy this.)
C9_WinRateGuard ==
    (Returned /\ BothPresent
        /\ (after.wins - before.wins) + (after.losses - before.losses) <= 0)
    => diff_text.kind = "return" /\ diff_text.value = LabelAndDelta

\* C10: for two present snapshots with canonical tiers, the no-change
\* phrase is rendered exactly when they have the same tier and (non-apex)
\* the same division; otherwise "<old> -> <new>" is rendered, each side the
\* tier abbreviation followed by the division for a non-apex tier and the
\* bare abbreviation for an apex tier, whatever its stored rank.
C10_TransitionLabel ==
    (Returned /\ BothPresent
        /\ before.tier \in CANONICAL_TIERS /\ after.tier \in CANONICAL_TIERS)
    => LET same == /\ before.tier = after.tier
                   /\ IsApex(before.tier) \/ before.rank = after.rank
           side(d) == IF IsApex(d.tier) THEN SHORT_MAPPING[Join(d.tier)]
                      ELSE SHORT_MAPPING[Join(d.tier)] \o Join(d.rank)
           fragment == IF frame.g > 0
                       THEN " (" \o str(frame.w) \o "W" \o str(frame.l) \o "L "
                                 \o str(frame.rate[1]) \o "%)"
                       ELSE ""
       IN  /\ diff_text.kind = "return"
           /\ diff_text.value =
                (IF same THEN "Tier:NoChange LP:"
                 ELSE "Tier " \o side(before) \o " -> " \o side(after) \o " LP: ")
                \o frame.lp_diff_str \o fragment

C10_Witness ==
    /\ Returned /\ BothPresent
    /\ before.tier = DIAMOND /\ before.rank = <<"I">> /\ before.lp = 0
    /\ after.tier = MASTER /\ after.rank = <<"I">> /\ after.lp = 0
    /\ diff_text = Return("Tier DI -> M LP: +100LP")

\* C11: replacing a tier name by another letter-casing of the same name
\* changes neither get_total_lp nor the string calculate_diff_text returns.
\* (The code does not satisfy this.)
C11_CaseInsensitive ==
    (Returned /\ BothPresent)
    => LET canon(d) == [d EXCEPT !.tier = upper(d.tier)]
       IN  /\ diff_text = calculate_diff_text(canon(before), canon(after))
           /\ diff_text.kind = "return" =>
                /\ frame.old_total = get_total_lp(upper(before.tier), before.rank, before.lp)
                /\ frame.new_total = get_total_lp(upper(after.tier), after.rank, after.lp)

\* the player's row of the greatest date <= target_d, as a set: empty when
\* there is none
NearestOnOrBefore(h_map, target_d) ==
    { h_map[d] : d \in { x \in DOMAIN h_map :
                           /\ x <= target_d
                           /\ ~ \E y \in DOMAIN h_map : x < y /\ y <= target_d } }

\* the targets of the two diff columns: the latest date of the report less
\* diff_days, and the earliest date of the report
ReportDates == UNION { DOMAIN data_map[rid] : rid \in RIOT_IDS }
Diff1Target == Max(ReportDates) - (CASE period_type = "daily" -> 1
                                     [] period_type = "weekly" -> 7
                                     [] period_type = "monthly" -> 30)
PeriodTarget == Min(ReportDates)

\* a diff cell over target t: "-" when the player has no row on or before
\* t; a diff text, when there is one, compares the nearest row on or before
\* t with the row of the latest date
CellSelectsNearest(cell, h_map, t) ==
    LET nearest == NearestOnOrBefore(h_map, t)
    IN  /\ nearest = {} => cell = Return("-")
        /\ cell # Return("-") =>
              \E b \in nearest :
                  cell = calculate_diff_text(b, h_map[Max(ReportDates)])

\* C12: in the table report the "before" snapshot of a diff column is the
\* player's snapshot with the greatest date <= the target date, and the cell
\* is "-" when the player has none.
C12_NearestSnapshot ==
    (pc = "reported" /\ table_data # Return(None))
    => \A rid \in RIOT_IDS :
          /\ CellSelectsNearest(table_data.value[rid].diff1_text,
                                data_map[rid], Diff1Target)
          /\ CellSelectsNearest(table_data.value[rid].period_diff_text,
                                data_map[rid], PeriodTarget)

\* p1 has rows on days 1, 3 and 4, the report ends on day 4: the daily diff
\* is taken against day 3 and the period diff against day 1
C12_Witness ==
    /\ pc = "reported" /\ period_type = "daily"
    /\ DOMAIN data_map["p1#JP1"] = {1, 3, 4} /\ DOMAIN data_map["p2#JP1"] = {2}
    /\ table_data.value["p1#JP1"].diff1_text = Return("Tier:NoChange LP:+1LP (1W0L 100%)")
    /\ table_data.value["p1#JP1"].period_diff_text = Return("Tier:NoChange LP:+3LP (3W0L 100%)")
    /\ table_data.value["p2#JP1"].diff1_text = Return("-")

\* the band index of a decoded value: v div 400, clamped into 0..9
ClampedBand(v) ==
    LET b == v \div 400 IN IF b > 9 THEN 9 ELSE IF b < 0 THEN 0 ELSE b

TierOfBand(b) == CHOOSE t \in CANONICAL_TIERS : TierOrdinal(t) = b

\* C13: numeric_to_rank returns a label for every integer v, negative ones
\* included, and the tier of the label is the one of band
\* min(v div 400, 9) clamped into 0..9; the one label without a tier name,
\* "+<n>LP", is built for an apex band only.  (The code does not satisfy
\* this.)
C13_DecodeTotal ==
    (pc = "decoded")
    => /\ label.kind = "return"
       /\ \/ NamesTier(label.value, TierOfBand(ClampedBand(tick)))
          \/ /\ IsApex(TierOfBand(ClampedBand(tick)))
             /\ label.value = "+" \o ToString(tick % 400) \o "LP"

\* a snapshot of the nominal domain: a tier IRON..DIAMOND, one of the four
\* divisions, points 0..99
Nominal(d) ==
    /\ Recognised(d) /\ ~IsApex(d.tier)
    /\ d.rank \in DIVISIONS
    /\ d.lp \in 0..99

\* b is the floor of the tier after a's: division IV (none for MASTER) and
\* 0 points
NextTierFloor(b, a) ==
    /\ Recognised(b)
    /\ TierOrdinal(b.tier) = TierOrdinal(a.tier) + 1
    /\ IsApex(b.tier) \/ b.rank = <<"I","V">>
    /\ b.lp = 0

\* C14: over the nominal domain get_total_lp is strictly increasing in the
\* order (tier ordinal, division weight, points), and every nominal total
\* is strictly below the total of the next tier at division IV, 0 points
\* (for DIAMOND: of MASTER at 0 points).
C14_NominalMonotone ==
    (Returned /\ BothPresent /\ Nominal(before))
    => /\ (Nominal(after) /\ StrictlyHigher(after, before))
            => frame.old_total < frame.new_total
       /\ NextTierFloor(after, before)
            => frame.old_total < frame.new_total

\* GOLD IV 99 against GOLD III 0, and DIAMOND I 99 against MASTER 0
C14_Witness ==
    /\ Returned /\ BothPresent
    /\ \/ /\ before.tier = GOLD /\ before.rank = <<"I","V">> /\ before.lp = 99
          /\ after.tier = GOLD /\ after.rank = <<"I","I","I">> /\ after.lp = 0
          /\ frame.old_total = 1299 /\ frame.new_total = 1300
       \/ /\ before.tier = DIAMOND /\ before.rank = <<"I">> /\ before.lp = 99
          /\ after.tier = MASTER /\ after.lp = 0
          /\ frame.old_total = 2799 /\ frame.new_total = 2800

\* C15: for a non-apex tier with band index b, a division of weight w and
\* any integer points p, get_total_lp and rank_to_numeric both return
\* b * 400 + w * 100 + p.
C15_NonApexEncoding ==
    (in_tier \in CANONICAL_TIERS /\ ~IsApex(in_tier) /\ in_rank \in DIVISIONS
        /\ total_lp.kind = "return" /\ numeric.kind = "return")
    => /\ total_lp.value =
            TierOrdinal(in_tier) * 400 + DivisionWeight(in_rank) * 100 + in_lp
       /\ numeric.value =
            TierOrdinal(in_tier) * 400 + DivisionWeight(in_rank) * 100 + in_lp

\* GOLD II 50 encodes to 1450 and GOLD I 0 to 1500, GOLD IV -150 to 1050
C15_Witness ==
    /\ in_tier = GOLD
    /\ \/ in_rank = <<"I","I">> /\ in_lp = 50
            /\ total_lp = Return(1450) /\ numeric = Return(1450)
       \/ in_rank = <<"I">> /\ in_lp = 0
            /\ total_lp = Return(1500) /\ numeric = Return(1500)
       \/ in_rank = <<"I","V">> /\ in_lp = -150
            /\ total_lp = Return(1050) /\ numeric = Return(1050)

\* C16: for two present snapshots A and B the delta of
\* calculate_diff_text(A, B) is get_total_lp(B) - get_total_lp(A) and the
\* negation of the delta of calculate_diff_text(B, A); for A = B it is zero,
\* rendered "+-0LP" with the no-change label.  (The code does not satisfy
\* this: see C7.)
C16_DeltaAntisymmetry ==
    (Returned /\ BothPresent)
    => /\ diff_text.kind = "return"
       /\ frame.diff = get_total_lp(after.tier, after.rank, after.lp)
                        - get_total_lp(before.tier, before.rank, before.lp)
       /\ diff_locals(after, before).diff = 0 - frame.diff
       /\ before = after => diff_text.value = "Tier:NoChange LP:+-0LP"

\* C17: with w and l the gains in wins and losses and games = w + l > 0,
\* calculate_diff_text appends a fragment carrying w, l and
\* rate = floor(w * 100 / games), the exact integer quotient.  (The code
\* does not satisfy this.)
C17_WinRateValue ==
    (Returned /\ BothPresent /\ diff_text.kind = "return"
        /\ (after.wins - before.wins) + (after.losses - before.losses) > 0)
    => LET w == after.wins - before.wins
           l == after.losses - before.losses
           rate == (w * 100) \div (w + l)
       IN  diff_text.value =
               LabelAndDelta \o " (" \o ToString(w) \o "W" \o ToString(l)
                   \o "L " \o ToString(rate) \o "%)"

\* C18: for a tier string that is none of the ten canonical names in any
\* letter-casing, with any division and points, get_total_lp and
\* rank_to_numeric return exactly 0 and do not raise.
C18_UnknownTierIsZero ==
    (upper(in_tier) \notin CANONICAL_TIERS)
    => /\ total_lp \in {NotCalled, Return(0)}
       /\ numeric \in {NotCalled, Return(0)}

\* "UNRANKED" with division IV and 50 points, and "" with no division and
\* negative points
C18_Witness ==
    /\ total_lp = Return(0) /\ numeric = Return(0)
    /\ \/ in_tier = <<"U","N","R","A","N","K","E","D">>
            /\ in_rank = <<"I","V">> /\ in_lp = 50
       \/ in_tier = <<>> /\ in_rank = <<>> /\ in_lp = -1

\* C19: when the before or the after snapshot handed to
\* calculate_diff_text is absent (None or an empty record) the result is
\* exactly "-", nothing is raised, and the call reads no field: it has none
\* of the locals computed from the fields.
C19_MissingSnapshot ==
    (Returned /\ ~BothPresent)
    => diff_text = Return("-") /\ frame = <<>>

\* None against a GOLD row, and a GOLD row against an empty record
C19_Witness ==
    /\ Returned /\ diff_text = Return("-")
    /\ \/ before = None /\ ~falsy(after) /\ after.tier = GOLD
       \/ ~falsy(before) /\ before.tier = GOLD /\ after = EmptyDict

\* the report jobs of the store that carry row r's server, channel, period
\* and output type, fire at r's time, and on Fridays only for a weekly row,
\* on day 1 only for a monthly row
IsReportJobOf(j, r) ==
    /\ j.func = "run_daily_report"
    /\ j.args = <<r.server_id, r.channel_id, r.period_type, r.output_type>>
    /\ <<j.hour, j.minute, j.second>> = r.schedule_time
    /\ j.day_of_week = "fri" <=> r.period_type = "weekly"
    /\ j.day_of_week \in {"fri", ""}
    /\ j.day = 1 <=> r.period_type = "monthly"
    /\ j.day \in {0, 1}

EnabledRows == { r \in schedules : r.status = "ENABLED" }

\* C20: once every command and its reload_schedules have run to completion,
\* one after the other, the job store holds exactly one daily_rank_fetch job
\* at 23:55 and exactly one report job per ENABLED row of schedules (weekly
\* rows on Fridays, monthly rows on day 1), and nothing else.
C20_JobsMatchSchedules ==
    (pc = "schedule" /\ AllIdle)
    => /\ \A j \in BagToSet(jobs) :
            \/ /\ j.name = "daily_rank_fetch" /\ j.func = "fetch_all_users_rank"
               /\ j.hour = 23 /\ j.minute = 55
               /\ CopiesIn(j, jobs) = 1
            \/ /\ \E r \in EnabledRows : IsReportJobOf(j, r)
               /\ CopiesIn(j, jobs) =
                    Cardinality({ r \in EnabledRows : IsReportJobOf(j, r) })
       /\ \E j \in BagToSet(jobs) : j.name = "daily_rank_fetch"
       /\ \A r \in EnabledRows : \E j \in BagToSet(jobs) : IsReportJobOf(j, r)
       /\ BagCardinality(jobs) = 1 + Cardinality(EnabledRows)

\* two schedules were added: a DISABLED one and an ENABLED weekly one, the
\* store holds the daily job and one Friday job; or the first was deleted
\* and the second, renumbered 1, is an ENABLED monthly row
C20_Witness ==
    /\ pc = "schedule" /\ AllIdle /\ next_id = 3
    /\ \/ /\ Cardinality(schedules) = 2
          /\ \E r \in schedules : r.status = "DISABLED"
          /\ \E r \in schedules : r.status = "ENABLED" /\ r.period_type = "weekly"
          /\ BagCardinality(jobs) = 2
          /\ \E j \in BagToSet(jobs) : j.day_of_week = "fri"
       \/ /\ Cardinality(schedules) = 1
          /\ \E r \in schedules : r.id = 2 /\ r.local_id = 1 /\ r.status = "ENABLED"
                                   /\ r.period_type = "monthly"
          /\ BagCardinality(jobs) = 2
          /\ \E j \in BagToSet(jobs) : j.day = 1

\* C21: when reload_schedules calls interleave at their awaits, then once
\* every coroutine has finished the store holds exactly one daily_rank_fetch
\* job and, for every ENABLED row, as many report jobs as there are ENABLED
\* rows with its settings: no report is sent twice for one schedule.  (The
\* code does not satisfy this.)
C21_NoDuplicateJobs ==
    (pc = "schedule" /\ AllIdle)
    => /\ BagCardinality(jobs) = 1 + Cardinality(EnabledRows)
       /\ \A j \in BagToSet(jobs) :
            CopiesIn(j, jobs) =
                IF j.name = "daily_rank_fetch" THEN 1
                ELSE Cardinality({ r \in EnabledRows : IsReportJobOf(j, r) })

\* C22: the update_schedule of a schedule_edit that displayed row S changes
\* row S, gives it the settings of the reply, and changes no other row,
\* whatever commands completed while the edit waited for the reply; stated
\* for tables in which no two rows of a server share a local id.  (The code
\* does not satisfy this.)
LocalIdsDistinct ==
    \A r, q \in schedules :
        (r.server_id = q.server_id /\ r.local_id = q.local_id) => r = q

C22_EditUpdatesShown ==
    [][\A t \in TASKS :
          (task[t].pc = "update" /\ task'[t].pc = "reload_begin" /\ LocalIdsDistinct)
          => \A r \in schedules :
                IF r.id = task[t].s.id
                THEN \E q \in schedules' :
                        /\ q.id = r.id
                        /\ q.period_type = task[t].input.period_type
                        /\ q.channel_id = task[t].input.channel_id
                        /\ q.output_type = task[t].input.output_type
                ELSE r \in schedules']_vars

---------------------------------------------------------------------------
(* Rank collection: the provider, table rank_history, fetch_and_save_rank *)

\* the users table holds MaxUsers registered players
MaxUsers == 2
\* date.today() of the collection; provider history is dated 1..Today
Today == 2

\* '#' in riot_id
HasHash(riot_id) == \E i \in DOMAIN riot_id : riot_id[i] = "#"

\* the riot id "p#<k>" of the k-th registered player
RiotId(k) == <<"p", "#", str(k)>>

\* the registered players: the last one in server 2, the others in server 1
REGISTERED ==
    { [server_id |-> IF k = MaxUsers THEN 2 ELSE 1, discord_id |-> k,
       riot_id |-> RiotId(k), puuid |-> "puuid", local_id |-> IF k = MaxUsers THEN 1 ELSE k]
      : k \in 1..MaxUsers }

\* what the provider does with a search: a result, no result, an error
SEARCH == {"found", "none", "raise"}

\* get_summoner: every error is caught and logged, and None is returned
get_summoner(search) == IF search = "found" THEN [summoner_id |-> 1] ELSE None

\* what the provider does with a renewal request: a status, or an error
RENEW_RESPONSES ==
    { [kind |-> "raise", status |-> 0] }
    \cup { [kind |-> "http", status |-> st] : st \in {202, 500} }

renew_summoner(resp) == resp.kind = "http" /\ resp.status \in {200, 201, 202, 204}

\* one entry of league_stats in the summary of a summoner
LEAGUE_STATS ==
    { [game_type |-> "SOLORANKED", tier |-> <<"g", "o", "l", "d">>, division |-> 2,
       lp |-> 40, win |-> 1, lose |-> 1],
      [game_type |-> "SOLORANKED", tier |-> <<"S", "I", "L", "V", "E", "R">>, division |-> 4,
       lp |-> 0, win |-> 0, lose |-> 2],
      [game_type |-> "FLEXRANKED", tier |-> <<"i", "r", "o", "n">>, division |-> 1,
       lp |-> 7, win |-> 2, lose |-> 0] }

\* what the provider does with the summary request of get_rank_info
RANK_RESPONSES ==
    { [kind |-> "raise", status |-> 0, data |-> None],
      [kind |-> "http", status |-> 500, data |-> None],
      [kind |-> "http", status |-> 200, data |-> EmptyDict],
      [kind |-> "http", status |-> 200, data |-> [league_stats |-> <<>>]] }
    \cup { [kind |-> "http", status |-> 200, data |-> [league_stats |-> <<st>>]]
           : st \in LEAGUE_STATS }

ROMAN == <<"I", "II", "III", "IV">>

division_to_roman(division) ==
    IF division = 0 THEN ""
    ELSE IF division \in 1..4 THEN ROMAN[division]
    ELSE str(division)

UNRANKED_INFO == <<"UNRANKED", "", 0, 0, 0>>

\* the (tier, rank, lp, wins, losses) of one league_stats entry
stat_info(stat) ==
    <<Join(upper(stat.tier)), division_to_roman(stat.division), stat.lp,
      stat.win, stat.lose>>

\* get_rank_info: (tier, rank, lp, wins, losses); every failure is the
\* UNRANKED tuple
get_rank_info(resp) ==
    IF resp.kind = "raise" THEN UNRANKED_INFO
    ELSE LET profile_data == IF resp.status = 200 THEN resp.data ELSE None
         IN  IF falsy(profile_data) THEN UNRANKED_INFO
             ELSE LET stats  == profile_data.league_stats
                      solo   == { i \in DOMAIN stats :
                                    stats[i].game_type \in
                                        {"SOLORANKED", "RANKED_SOLO_5X5", "SOLO"} }
                      ranked == { i \in DOMAIN stats :
                                    Join(upper(stats[i].tier)) \notin {"", "UNRANKED"} }
                      first(I) == CHOOSE i \in I : \A j \in I : i <= j
                  IN  IF solo # {} THEN stat_info(stats[first(solo)])
                      ELSE IF ranked # {} THEN stat_info(stats[first(ranked)])
                      ELSE UNRANKED_INFO

\* the unique key of rank_history
SameKey(r, server_id, discord_id, riot_id, fetch_date) ==
    /\ r.server_id = server_id /\ r.discord_id = discord_id
    /\ r.riot_id = riot_id /\ r.fetch_date = fetch_date

\* a plain INSERT, without the ON CONFLICT clause
add_rank_history_insert_only(table, server_id, discord_id, riot_id, tier, rank, lp, wins, losses, fetch_date) ==
    table \cup { [server_id |-> server_id, discord_id |-> discord_id,
                   riot_id |-> riot_id, tier |-> tier, rank |-> rank, lp |-> lp,
                   wins |-> wins, losses |-> losses, games |-> wins + losses,
                   fetch_date |-> fetch_date] }

\* add_rank_history: INSERT .. ON CONFLICT (key) DO UPDATE, with the unique
\* constraint rank_history_unique_entry of initialize in place
add_rank_history(table, server_id, discord_id, riot_id, tier, rank, lp, wins, losses, fetch_date) ==
    LET games == wins + losses
        conflict == { r \in table : SameKey(r, server_id, discord_id, riot_id, fetch_date) }
    IN  IF conflict = {}
        THEN table \cup { [server_id |-> server_id, discord_id |-> discord_id,
                           riot_id |-> riot_id, tier |-> tier, rank |-> rank, lp |-> lp,
                           wins |-> wins, losses |-> losses, games |-> games,
                           fetch_date |-> fetch_date] }
        ELSE (table \ conflict)
             \cup { [r EXCEPT !.tier = tier, !.rank = rank, !.lp = lp, !.wins = wins,
                              !.losses = losses, !.games = games] : r \in conflict }

\* what the outside world does during one fetch_and_save_rank call
FETCH_WORLDS ==
    [search : SEARCH, renew : RENEW_RESPONSES, rank : RANK_RESPONSES,
     db : {"ok", "error"}]

\* fetch_and_save_rank: its return value and the table it leaves
fetch_and_save_rank(table, user, target_date, skip_renewal, world) ==
    IF ~HasHash(user.riot_id) THEN [result |-> FALSE, table |-> table, wrote |-> FALSE]
    ELSE LET summoner == get_summoner(world.search)
         IN  IF falsy(summoner) THEN [result |-> FALSE, table |-> table, wrote |-> FALSE]
             ELSE LET renewed == skip_renewal \/ renew_summoner(world.renew)
                      info == get_rank_info(world.rank)
                  IN  IF world.db = "error"
                      THEN [result |-> FALSE, table |-> table, wrote |-> FALSE]
                      ELSE [result |-> TRUE,
                            table |-> add_rank_history(table, user.server_id,
                                         user.discord_id, user.riot_id, info[1], info[2],
                                         info[3], info[4], info[5], target_date),
                            wrote |-> TRUE]

\* get_user_by_riot_id: the rows fetchrow chooses from
get_user_by_riot_id(table, server_id, riot_id) ==
    { u \in table : u.server_id = server_id /\ u.riot_id = riot_id }

\* the state of the entry points other than the collection ones
nonCollectVars == <<pc, scaleVars, deltaVars, tick, data_map, period_type, table_data,
                    schedVars>>

InitFetch ==
    /\ pc = "fetch"
    /\ users = REGISTERED
    /\ rank_history = {}
    /\ call = NotCalled /\ bulk = IdleBulk
    /\ tick = 0 /\ ReportIdle /\ SchedIdle
    /\ ScaleIdle /\ DeltaIdle

\* /fetch <riot_id>: a registered player is fetched with renewal, an
\* unknown one is answered with a message
Fetch ==
    /\ pc = "fetch"
    /\ \E server_id \in SERVERS, k \in 1..(MaxUsers + 1) :
         LET found == get_user_by_riot_id(users, server_id, RiotId(k))
         IN  IF found = {}
             THEN /\ call' = [op |-> "fetch", user |-> None, search |-> "", rank |-> None,
                              db |-> "", result |-> NotCalled]
                  /\ UNCHANGED rank_history
             ELSE \E user \in found, world \in FETCH_WORLDS :
                    LET out == fetch_and_save_rank(rank_history, user, Today, FALSE, world)
                    IN  /\ call' = [op |-> "fetch", user |-> user, search |-> world.search,
                                    rank |-> world.rank, db |-> world.db,
                                    result |-> Return(out.result)]
                        /\ rank_history' = out.table
    /\ UNCHANGED <<users, bulk, nonCollectVars>>

NextFetch == Fetch

SpecFetch == InitFetch /\ [][NextFetch]_vars

\* C23: whenever fetch_and_save_rank cannot obtain rank data (summoner not
\* found, summary request not 200 or without profile data, or an error inside
\* get_rank_info), it returns False and leaves rank_history unchanged, so an
\* earlier snapshot of the same player and date is not overwritten by an
\* UNRANKED / 0 / 0 / 0 row
LookupFailed(c) ==
    \/ ~HasHash(c.user.riot_id)
    \/ c.search # "found"
    \/ c.rank.kind = "raise"
    \/ c.rank.status # 200
    \/ falsy(c.rank.data)

C23_FailedLookupPersistsNothing ==
    [][(call' # call /\ call'.result # NotCalled /\ LookupFailed(call'))
         => /\ call'.result = Return(FALSE)
            /\ rank_history' = rank_history]_vars

---------------------------------------------------------------------------
(* Registration: /user add and table users *)

\* the members of a guild that /user add can name
OWNERS == {1, 2}

\* the RiotID part of the reply to /user add
RIOT_INPUTS ==
    { <<"p", "#", "a">>, <<"p", "#", "A">>, <<"q", "#", "b">>, <<"p", "a">> }

\* input_str.split('#', 1) of an input that holds a '#'
split_hash(input_str) ==
    LET k == CHOOSE i \in DOMAIN input_str :
                 /\ input_str[i] = "#"
                 /\ \A j \in 1..(i - 1) : input_str[j] # "#"
    IN  <<SubSeq(input_str, 1, k - 1), SubSeq(input_str, k + 1, Len(input_str))>>

\* parse_riot_id of an input that is not an op.gg URL: (name, tag, error)
parse_riot_id(input_str) ==
    IF HasHash(input_str)
    THEN [game_name |-> split_hash(input_str)[1], tag_line |-> split_hash(input_str)[2],
          error |-> FALSE]
    ELSE [game_name |-> <<>>, tag_line |-> <<>>, error |-> TRUE]

\* SELECT MAX(local_id) FROM users WHERE server_id = $1, or 0
select_max_user_local_id(table, server_id) ==
    LET ids == { u.local_id : u \in { v \in table : v.server_id = server_id } }
    IN  IF ids = {} THEN 0 ELSE CHOOSE m \in ids : \A n \in ids : n <= m

\* register_user: INSERT with the next local id when the (server, owner,
\* riot id) triple is new, else UPDATE of the puuid
register_user(table, server_id, discord_id, riot_id, puuid) ==
    LET existing == { u \in table : /\ u.server_id = server_id
                                    /\ u.discord_id = discord_id
                                    /\ u.riot_id = riot_id }
    IN  IF existing = {}
        THEN table \cup { [server_id |-> server_id, discord_id |-> discord_id,
                           riot_id |-> riot_id, puuid |-> puuid,
                           local_id |-> select_max_user_local_id(table, server_id) + 1] }
        ELSE (table \ existing) \cup { [u EXCEPT !.puuid = puuid] : u \in existing }

InitRegister ==
    /\ pc = "register"
    /\ users = {}
    /\ rank_history = {}
    /\ call = NotCalled /\ bulk = IdleBulk
    /\ tick = 0 /\ ReportIdle /\ SchedIdle
    /\ ScaleIdle /\ DeltaIdle

\* /user add with its reply `target RiotID`: the reply is parsed, the
\* summoner is looked up, and the registration is stored
UserAdd ==
    /\ pc = "register"
    /\ \E server_id \in SERVERS, target \in OWNERS, riot_id_input \in RIOT_INPUTS,
          search \in SEARCH, summoner_id \in {1, 2} :
         LET parsed == parse_riot_id(riot_id_input)
             summoner == IF search = "found" THEN [summoner_id |-> summoner_id] ELSE None
             real_riot_id == parsed.game_name \o <<"#">> \o upper(parsed.tag_line)
             fake_puuid == "OPGG:" \o str(summoner_id)
             stored == register_user(users, server_id, target, real_riot_id, fake_puuid)
         IN  IF parsed.error \/ falsy(summoner)
             THEN /\ call' = [op |-> "user_add", server_id |-> server_id,
                              discord_id |-> target, riot_id |-> riot_id_input,
                              registered |-> FALSE]
                  /\ UNCHANGED users
             ELSE /\ Cardinality(stored) <= MaxUsers
                  /\ call' = [op |-> "user_add", server_id |-> server_id,
                              discord_id |-> target, riot_id |-> real_riot_id,
                              registered |-> TRUE]
                  /\ users' = stored
    /\ UNCHANGED <<rank_history, bulk, nonCollectVars>>

NextRegister == UserAdd

SpecRegister == InitRegister /\ [][NextRegister]_vars

\* C24: after /user add registers a Riot ID that the server already holds
\* under another owner, the server has exactly one users row for that Riot
\* ID, owned by the new owner; re-registering an existing (server, owner,
\* Riot ID) triple keeps the number of rows and the row's local id
RowsOfRiotId(table, server_id, riot_id) ==
    { u \in table : u.server_id = server_id /\ u.riot_id = riot_id }

C24_ReRegisterOverwrites ==
    [][(call' # call /\ call'.registered)
         => LET held == RowsOfRiotId(users, call'.server_id, call'.riot_id)
                now  == RowsOfRiotId(users', call'.server_id, call'.riot_id)
            IN  /\ (held # {} /\ \A u \in held : u.discord_id # call'.discord_id)
                     => /\ Cardinality(now) = 1
                        /\ \A u \in now : u.discord_id = call'.discord_id
                /\ (\E u \in held : u.discord_id = call'.discord_id)
                     => /\ Cardinality(users') = Cardinality(users)
                        /\ \A u \in held : u.discord_id = call'.discord_id
                              => \E v \in now : /\ v.discord_id = u.discord_id
                                                /\ v.local_id = u.local_id]_vars

---------------------------------------------------------------------------
\* C25: with register_schedule and delete_schedule executed one at a time,
\* the local ids of each server's schedules are pairwise distinct, are
\* exactly 1..m for its m schedules, and ascend with the global id; a step
\* leaves the schedules of the other servers as they are
SchedulesOf(rows, server_id) == { r \in rows : r.server_id = server_id }

DenseLocalIds(rows) ==
    \A server_id \in SERVERS :
        LET own == SchedulesOf(rows, server_id)
        IN  /\ { r.local_id : r \in own } = 1..Cardinality(own)
            /\ \A r, q \in own : (r.local_id = q.local_id) => r = q
            /\ \A r, q \in own : (r.id < q.id) => r.local_id < q.local_id

C25_LocalIdsDense ==
    [][/\ DenseLocalIds(schedules')
       /\ \A t \in TASKS, server_id \in SERVERS :
            (task[t].pc \in {"insert", "delete"} /\ task'[t].pc = "reload_begin"
             /\ server_id # task[t].server_id)
            => SchedulesOf(schedules', server_id) = SchedulesOf(schedules, server_id)]_vars

\* the first schedule of server 1 was deleted and the one behind it moved
\* up to local id 1
C25_Witness ==
    /\ \E r \in schedules : r.id = 2 /\ r.local_id = 1 /\ r.server_id = 1
    /\ next_id = 3 /\ Cardinality(schedules) = 1
    /\ AllIdle

---------------------------------------------------------------------------
\* C26: when two register_schedule calls for one server interleave between
\* their SELECT MAX(local_id) and their INSERT, the two rows still get
\* different local ids, so that get_schedule_by_id addresses a single row
C26_ConcurrentLocalIdsDistinct ==
    \A server_id \in SERVERS, local_id \in 1..MaxScheduleId :
        Cardinality(get_schedule_by_id(schedules, server_id, local_id)) <= 1

---------------------------------------------------------------------------
(* Bulk collection: fetch_all_users_rank *)

\* the entries of get_tier_history: dated 1..Today
HISTORY_ENTRIES ==
    { [updated_at |-> d, tier |-> "GOLD", rank |-> "IV", lp |-> 10 * d] : d \in 1..Today }

\* what the provider does during one _backfill_user call: the search, and
\* the tier history (at most two entries) or an error
BACKFILL_WORLDS ==
    [search : SEARCH,
     history : { Raise("Exception"), Return(<<>>) }
               \cup { Return(<<entry>>) : entry \in HISTORY_ENTRIES }
               \cup { Return(<<e1, e2>>) : e1 \in HISTORY_ENTRIES, e2 \in HISTORY_ENTRIES }]

\* the loop of _backfill_user over the history entries
RECURSIVE backfill_entries(_, _, _, _)
backfill_entries(table, user, history, today) ==
    IF history = <<>> THEN table
    ELSE LET entry == Head(history)
             h_date == entry.updated_at
         IN  backfill_entries(
                 IF h_date < today
                 THEN add_rank_history(table, user.server_id, user.discord_id,
                          user.riot_id, entry.tier, entry.rank, entry.lp, 0, 0, h_date)
                 ELSE table,
                 user, Tail(history), today)

\* _backfill_user: the table it leaves; every error is caught and logged
_backfill_user(table, user, today, world) ==
    IF ~HasHash(user.riot_id) THEN table
    ELSE IF falsy(get_summoner(world.search)) THEN table
    ELSE IF world.history.kind = "raise" THEN table
    ELSE backfill_entries(table, user, world.history.value, today)

\* what the outside world does during one request_renewal_for_user call;
\* `raises` is an exception that leaves the coroutine
RENEWAL_WORLDS == [search : SEARCH, renew : RENEW_RESPONSES, raises : BOOLEAN]

\* request_renewal_for_user: the result asyncio.gather collects for it
request_renewal_for_user(user, world) ==
    IF world.raises THEN Raise("Exception")
    ELSE IF ~HasHash(user.riot_id) THEN Return(FALSE)
    ELSE LET summoner == get_summoner(world.search)
         IN  IF falsy(summoner) THEN Return(FALSE)
             ELSE Return(renew_summoner(world.renew))

\* the orders in which a SELECT without ORDER BY lists the rows
Listings(rows) ==
    { f \in [1..Cardinality(rows) -> rows] : \A i, j \in DOMAIN f : f[i] = f[j] => i = j }

\* get_users_by_server / get_all_users
get_users(table, server_id) ==
    IF server_id # 0 THEN { u \in table : u.server_id = server_id } ELSE table

\* asyncio.gather returns at the first result
gather_any_returned(renewal_results) ==
    \E i \in DOMAIN renewal_results : renewal_results[i] # NotCalled

\* asyncio.gather(*renewal_tasks, return_exceptions=True) returns when every
\* renewal coroutine has a result
gather_returned(renewal_results) ==
    \A i \in DOMAIN renewal_results : renewal_results[i] # NotCalled

\* the users whose renewal result is truthy and not an exception, in order
RECURSIVE renewed_users(_, _)
renewed_users(user_list, renewal_results) ==
    IF user_list = <<>> THEN <<>>
    ELSE LET res == Head(renewal_results)
             rest == renewed_users(Tail(user_list), Tail(renewal_results))
         IN  IF res.kind = "return" /\ res.value = TRUE
             THEN <<Head(user_list)>> \o rest
             ELSE rest

\* the riot ids of the other users, in order
RECURSIVE unrenewed_riot_ids(_, _)
unrenewed_riot_ids(user_list, renewal_results) ==
    IF user_list = <<>> THEN <<>>
    ELSE LET res == Head(renewal_results)
             rest == unrenewed_riot_ids(Tail(user_list), Tail(renewal_results))
         IN  IF res.kind = "return" /\ res.value = TRUE
             THEN rest
             ELSE <<Head(user_list).riot_id>> \o rest

\* a count of failures that leaves the renewal failures out
failed_in_loop(failed, user_list, success_users) == failed

\* results['failed'] += (len(users) - len(success_users))
failed_total(failed, user_list, success_users) ==
    failed + (Len(user_list) - Len(success_users))

\* the snapshots of yesterday's jobs and of an earlier run of today
EARLIER_SNAPSHOTS ==
    { [server_id |-> u.server_id, discord_id |-> u.discord_id, riot_id |-> u.riot_id,
       tier |-> "SILVER", rank |-> "I", lp |-> 99, wins |-> 5, losses |-> 5,
       games |-> 10, fetch_date |-> Today] : u \in REGISTERED }

InitBulk ==
    /\ pc = "bulk"
    /\ users = REGISTERED
    /\ rank_history \in {{}, EARLIER_SNAPSHOTS}
    /\ call = NotCalled /\ bulk = IdleBulk
    /\ tick = 0 /\ ReportIdle /\ SchedIdle
    /\ ScaleIdle /\ DeltaIdle

\* fetch_all_users_rank up to asyncio.gather: the users are listed and one
\* renewal coroutine per user is started
BulkStart ==
    /\ pc = "bulk"
    /\ bulk.pc = "idle"
    /\ \E backfill \in BOOLEAN, server_id \in {0} \cup SERVERS :
         \E user_list \in Listings(get_users(users, server_id)) :
            bulk' = [IdleBulk EXCEPT
                       !.pc = "renewing", !.backfill = backfill, !.server_id = server_id,
                       !.users = user_list, !.history_at_start = rank_history,
                       !.renewal_results = [i \in DOMAIN user_list |-> NotCalled],
                       !.results = [total |-> Len(user_list), success |-> 0, failed |-> 0,
                                    failed_list |-> {}]]
    /\ UNCHANGED <<users, rank_history, call, nonCollectVars>>

\* one renewal coroutine runs to its end
RenewalStep ==
    /\ bulk.pc = "renewing"
    /\ \E i \in DOMAIN bulk.users, world \in RENEWAL_WORLDS :
         /\ bulk.renewal_results[i] = NotCalled
         /\ bulk' = [bulk EXCEPT !.renewal_results[i] =
                                    request_renewal_for_user(bulk.users[i], world)]
    /\ UNCHANGED <<users, rank_history, call, nonCollectVars>>

\* asyncio.gather returns and the renewal results are sorted into
\* success_users and formatted_failed_users
GatherReturn ==
    /\ bulk.pc = "renewing"
    /\ gather_returned(bulk.renewal_results)
    /\ bulk' = [bulk EXCEPT
                  !.pc = "fetching", !.i = 1,
                  !.success_users = renewed_users(bulk.users, bulk.renewal_results),
                  !.formatted_failed_users =
                      unrenewed_riot_ids(bulk.users, bulk.renewal_results)]
    /\ UNCHANGED <<users, rank_history, call, nonCollectVars>>

\* one iteration of the loop over success_users
FetchStep ==
    /\ bulk.pc = "fetching"
    /\ bulk.i <= Len(bulk.success_users)
    /\ \E world \in FETCH_WORLDS, raises \in BOOLEAN :
         LET user == bulk.success_users[bulk.i]
             out  == fetch_and_save_rank(rank_history, user, Today, TRUE, world)
             success == ~raises /\ out.result
         IN  \* with skip_renewal no renewal is requested; an exception
             \* leaves the call before it asks the provider anything
             /\ world.renew.kind = "raise"
             /\ raises => (world.search = "raise" /\ world.rank.kind = "raise"
                           /\ world.db = "error")
             /\ IF raises THEN UNCHANGED rank_history
                ELSE IF bulk.backfill /\ success
                THEN \E bworld \in BACKFILL_WORLDS :
                        rank_history' = _backfill_user(out.table, user, Today, bworld)
                ELSE rank_history' = out.table
             /\ bulk' = [bulk EXCEPT
                           !.i = @ + 1,
                           !.results.success = IF success THEN @ + 1 ELSE @,
                           !.results.failed = IF success THEN @ ELSE @ + 1,
                           !.formatted_failed_users =
                               IF success THEN @ ELSE Append(@, user.riot_id),
                           !.fetched = @ \cup {user},
                           !.written = IF ~raises /\ out.wrote THEN @ \cup {user} ELSE @]
    /\ UNCHANGED <<users, call, nonCollectVars>>

\* after the loop: the renewal failures are added and the result returned
BulkFinish ==
    /\ bulk.pc = "fetching"
    /\ bulk.i > Len(bulk.success_users)
    /\ bulk' = [bulk EXCEPT
                  !.pc = "done",
                  !.results.failed = failed_total(@, bulk.users, bulk.success_users),
                  !.results.failed_list =
                      { bulk.formatted_failed_users[k] :
                          k \in DOMAIN bulk.formatted_failed_users }]
    /\ UNCHANGED <<users, rank_history, call, nonCollectVars>>

NextBulk == BulkStart \/ RenewalStep \/ GatherReturn \/ FetchStep \/ BulkFinish

SpecBulk == InitBulk /\ [][NextBulk]_vars

---------------------------------------------------------------------------
\* the snapshots of one user in a rank_history table
SnapshotsOf(table, user) ==
    { r \in table : /\ r.server_id = user.server_id /\ r.discord_id = user.discord_id
                    /\ r.riot_id = user.riot_id }

\* the positions of the users whose renewal request returned success
Renewed == { i \in DOMAIN bulk.users : bulk.renewal_results[i] = Return(TRUE) }

\* C27: within one fetch_all_users_rank run no rank is fetched and no
\* snapshot written before every user's renewal request has completed;
\* ranks are fetched and snapshots written only for users whose renewal
\* returned success; a user whose renewal returned False or raised keeps
\* the snapshots they had and is listed in failed_list
C27_RenewalGatesFetch ==
    /\ (bulk.fetched # {} \/ bulk.written # {} \/ rank_history # bulk.history_at_start)
         => \A i \in DOMAIN bulk.users : bulk.renewal_results[i] # NotCalled
    /\ \A user \in bulk.fetched \cup bulk.written :
         \E i \in Renewed : bulk.users[i] = user
    /\ \A i \in DOMAIN bulk.users :
         i \notin Renewed
         => /\ SnapshotsOf(rank_history, bulk.users[i])
                 = SnapshotsOf(bulk.history_at_start, bulk.users[i])
            /\ bulk.pc = "done" => bulk.users[i].riot_id \in bulk.results.failed_list

\* a finished run over two users: one renewed and written, the other's
\* renewal raised
C27_Witness ==
    /\ bulk.pc = "done"
    /\ \E i, j \in DOMAIN bulk.users :
         /\ i \in Renewed /\ bulk.users[i] \in bulk.written
         /\ SnapshotsOf(rank_history, bulk.users[i])
              # SnapshotsOf(bulk.history_at_start, bulk.users[i])
         /\ bulk.renewal_results[j] = Raise("Exception")
         /\ bulk.users[j].riot_id \in bulk.results.failed_list

\* C28: the result of fetch_all_users_rank satisfies success + failed =
\* total = number of users, each user is counted once (as a success when
\* their snapshot was written, as a failure otherwise), and failed > 0
\* exactly when failed_list is not empty
C28_Accounting ==
    bulk.pc = "done"
    => LET results == bulk.results
       IN  /\ results.success + results.failed = results.total
           /\ results.total = Len(bulk.users)
           /\ results.total = Cardinality(get_users(users, bulk.server_id))
           /\ results.success = Cardinality(bulk.written)
           /\ results.failed = Cardinality({ i \in DOMAIN bulk.users :
                                               bulk.users[i] \notin bulk.written })
           /\ (results.failed > 0) <=> (results.failed_list # {})

\* a finished run with a success, a renewal failure and a non-empty
\* failed_list
C28_Witness ==
    /\ bulk.pc = "done"
    /\ bulk.results.success >= 1
    /\ bulk.results.failed >= 1
    /\ bulk.results.failed_list # {}
    /\ \E i \in DOMAIN bulk.users : bulk.renewal_results[i] = Return(FALSE)

---------------------------------------------------------------------------
(* Snapshots: the calls of add_rank_history *)

\* the (tier, rank, lp, wins, losses, fetch_date) its callers hand over:
\* fetch_and_save_rank the rank info of today, _backfill_user a history
\* entry of an earlier day with 0 wins and 0 losses
SNAPSHOT_ARGS ==
    { <<get_rank_info(resp)[1], get_rank_info(resp)[2], get_rank_info(resp)[3],
        get_rank_info(resp)[4], get_rank_info(resp)[5], Today>> : resp \in RANK_RESPONSES }
    \cup { <<entry.tier, entry.rank, entry.lp, 0, 0, entry.updated_at>>
           : entry \in { h \in HISTORY_ENTRIES : h.updated_at < Today } }

InitHistory ==
    /\ pc = "history"
    /\ users = REGISTERED
    /\ rank_history = {}
    /\ call = NotCalled /\ bulk = IdleBulk
    /\ tick = 0 /\ ReportIdle /\ SchedIdle
    /\ ScaleIdle /\ DeltaIdle

\* one call of add_rank_history for a registered user
CallAddRankHistory ==
    /\ pc = "history"
    /\ \E user \in users, args \in SNAPSHOT_ARGS :
         /\ call' = [op |-> "add_rank_history", server_id |-> user.server_id,
                     discord_id |-> user.discord_id, riot_id |-> user.riot_id,
                     tier |-> args[1], rank |-> args[2], lp |-> args[3],
                     wins |-> args[4], losses |-> args[5], fetch_date |-> args[6],
                     conflict |-> \E r \in rank_history :
                                     SameKey(r, user.server_id, user.discord_id,
                                             user.riot_id, args[6])]
         /\ rank_history' = add_rank_history(rank_history, user.server_id,
                                user.discord_id, user.riot_id, args[1], args[2], args[3],
                                args[4], args[5], args[6])
    /\ UNCHANGED <<users, bulk, nonCollectVars>>

NextHistory == CallAddRankHistory

SpecHistory == InitHistory /\ [][NextHistory]_vars

\* C29: after every add_rank_history call rank_history holds at most one
\* row per (server_id, discord_id, riot_id, fetch_date); the row of the
\* call's key carries the call's tier, rank, lp, wins and losses and
\* games = wins + losses; the rows of the other keys are unchanged
C29_LastWriteWins ==
    [][(call' # call)
         => LET c == call'
                hit(r) == SameKey(r, c.server_id, c.discord_id, c.riot_id, c.fetch_date)
            IN  /\ \A r, q \in rank_history' :
                     SameKey(r, q.server_id, q.discord_id, q.riot_id, q.fetch_date) => r = q
                /\ \E r \in rank_history' :
                     /\ hit(r)
                     /\ r.tier = c.tier /\ r.rank = c.rank /\ r.lp = c.lp
                     /\ r.wins = c.wins /\ r.losses = c.losses
                     /\ r.games = c.wins + c.losses
                /\ { r \in rank_history' : ~hit(r) } = { r \in rank_history : ~hit(r) }]_vars

\* the last call overwrote the snapshot of its key with other values, next
\* to a snapshot of another key
C29_Witness ==
    /\ call # NotCalled
    /\ call.conflict
    /\ call.wins + call.losses > 0
    /\ \E r \in rank_history :
         /\ SameKey(r, call.server_id, call.discord_id, call.riot_id, call.fetch_date)
         /\ r.tier = call.tier /\ r.games = call.wins + call.losses
    /\ Cardinality(rank_history) >= 2

============================================================================
